---- MODULE Spec2Model ----
(***************************************************************************)
(* State-machine model of ChatAnalyzer (src/main.py): one run of the       *)
(* program (run_with_args / run_interactive), its ingestion loop            *)
(* (fetch_messages, _save_message) against the SQLite store, and the       *)
(* aggregation (analyze_global_stats, analyze_user_stats).                  *)
(*                                                                         *)
(* Time is counted in ticks; a day has DayLen ticks.  A datetime is a wall *)
(* clock reading plus an optional UTC offset; an ISO string stored in the  *)
(* database is the pair <<day, time of day>> and is compared as SQLite     *)
(* compares TEXT: position by position.                                    *)
(***************************************************************************)
EXTENDS Integers, Sequences, FiniteSets, TLC

\* ------------------------------------------------------------------ bounds
MaxId == 5          \* ids of the messages short histories are drawn from
MaxLen == 3         \* length of a short history
MaxDay == 1         \* dates the user can type: day 0 .. MaxDay
MaxRuns == 2        \* invocations of the program against one database file
DayLen == 2         \* ticks per calendar day
LocalOffset == 1    \* UTC offset (ticks) of the machine's local time zone
MaxWait == 1        \* largest FloodWait duration (seconds)
MaxStore == 4       \* rows of a store the aggregation is applied to
MonthDays == 2      \* days per calendar month

\* ------------------------------------------------------- program constants
batch_size == 100
PacingTenths == 1   \* asyncio.sleep(0.1), in tenths of a second
None == -1          \* Python None / SQL NULL in an integer position
Null == "NULL"      \* Python None / SQL NULL in a text position
MonthsPerYear == 12 \* analyze_global_stats: if mon == 12
TopWords == 10      \* most_common(10)
TopStickers == 5    \* most_common(5)

VARIABLES
    pc,            \* position of the run's coroutine
    args,          \* <<start, end>> as typed: [kind, day]
    start_date,    \* self.start_date: instant or None
    end_date,      \* self.end_date
    calls,         \* Adapter operations of this run: session start, access
                   \* check (get_chat), history stream (get_chat_history)
    db_created,    \* the database file exists (tables created)
    db_conn,       \* self.db_conn: "none" or "open"
    db,            \* committed rows of table messages
    txn,           \* rows inserted in the connection's open transaction
    hist,          \* the chat's history as get_chat_history delivers it (ids)
    edited,        \* the messages were edited since the previous run
    pos,           \* messages the stream has yielded in this run
    count,         \* fetch_messages: count
    batch_count,   \* fetch_messages: batch_count
    sleep_for,     \* duration of the pending asyncio.sleep, tenths of a second
    outcome,       \* how fetch_messages ended in this run
    global_stats,  \* result of analyze_global_stats ({} before it ran)
    user_stats,    \* sender id -> result of analyze_user_stats
    run,           \* number of the current invocation
    prev_db,       \* database content when the current invocation started
    prev_outcome   \* outcome of the previous invocation

vars == <<pc, args, start_date, end_date, calls, db_created, db_conn, db,
          txn, hist, edited, pos, count, batch_count, sleep_for, outcome,
          global_stats, user_stats, run, prev_db, prev_outcome>>

\* ------------------------------------------------------------ date and time
Wall(day, tod) == day * DayLen + tod

\* datetime.astimezone(timezone.utc) of an aware datetime
AsUTC(d) == d.wall - d.off

\* fetch_messages: naive -> replace(tzinfo=utc), aware -> astimezone(utc)
FetchDate(d) == IF d.aware THEN AsUTC(d) ELSE d.wall

\* _save_message: message.date.astimezone(utc); a naive datetime is taken
\* to be local time
SaveDate(d) == IF d.aware THEN AsUTC(d) ELSE d.wall - LocalOffset

\* datetime.isoformat() of a UTC datetime: "YYYY-MM-DDTHH:MM:SS+00:00"
IsoFormat(t) == <<t \div DayLen, t % DayLen>>

\* datetime.fromisoformat(s).astimezone(utc)
FromIso(s) == s[1] * DayLen + s[2]

\* dt.date()
DateOf(t) == t \div DayLen

\* SQLite's TEXT comparison a < b of two ISO strings
IsoLess(a, b) == a[1] < b[1] \/ (a[1] = b[1] /\ a[2] < b[2])

\* parse_date: valid "d.m.y" -> midnight UTC of that day
parse_date(a) == Wall(a.day, 0)

\* ------------------------------------------------------ the source messages
Dt(day, tod, aware, off) == [wall |-> Wall(day, tod) + off, aware |-> aware, off |-> off]

Contents == <<
  [from_user |-> "A",  text |-> "hi", caption |-> Null,  media |-> "none",
   emoji |-> Null, date |-> Dt(0, 1, TRUE, 0)],
  [from_user |-> "B",  text |-> Null, caption |-> "pic", media |-> "photo",
   emoji |-> Null, date |-> Dt(1, 0, TRUE, 0)],
  [from_user |-> "A",  text |-> "yo", caption |-> Null,  media |-> "none",
   emoji |-> Null, date |-> Dt(2, 0, TRUE, 0)],
  [from_user |-> Null, text |-> Null, caption |-> Null,  media |-> "voice",
   emoji |-> Null, date |-> [wall |-> Wall(1, 1), aware |-> FALSE, off |-> 0]],
  [from_user |-> "A",  text |-> Null, caption |-> Null,  media |-> "none",
   emoji |-> Null, date |-> Dt(0, 0, TRUE, 0)],
  [from_user |-> "B",  text |-> Null, caption |-> Null,  media |-> "sticker",
   emoji |-> ":)", date |-> Dt(2, 1, TRUE, 1)],
  [from_user |-> "B",  text |-> Null, caption |-> "clip", media |-> "video",
   emoji |-> Null, date |-> Dt(1, 1, TRUE, 0)],
  [from_user |-> "A",  text |-> Null, caption |-> Null,  media |-> "video_note",
   emoji |-> Null, date |-> Dt(0, 1, TRUE, 0)],
  [from_user |-> "A",  text |-> "Hello, hello WORLD!", caption |-> Null,
   media |-> "none", emoji |-> Null, date |-> Dt(3, 0, TRUE, 0)],
  [from_user |-> "B",  text |-> "the yo a hi", caption |-> Null,
   media |-> "none", emoji |-> Null, date |-> Dt(0, 0, TRUE, 0)],
  [from_user |-> Null, text |-> "aa bb cc dd ee ff gg hh ii jj kk", caption |-> Null,
   media |-> "none", emoji |-> Null, date |-> Dt(1, 0, TRUE, 0)],
  [from_user |-> "A",  text |-> Null, caption |-> Null,  media |-> "sticker",
   emoji |-> ":(", date |-> Dt(3, 1, TRUE, 0)] >>

LongLen == 2 * batch_size + 1

\* the Message object the Adapter yields for id i
SrcMsg(i) ==
    LET c == IF i <= MaxId THEN Contents[((i - 1) % Len(Contents)) + 1]
             ELSE Contents[1]
    IN  [id |-> i, from_user |-> c.from_user, text |-> c.text,
         caption |-> c.caption, media |-> c.media, emoji |-> c.emoji,
         date |-> c.date]

\* the same message after its author edited it
Edit(m) == [m EXCEPT !.text = "edit"]

Injective(s) == \A i, j \in DOMAIN s : s[i] = s[j] => i = j

ShortHists ==
    UNION { {s \in [1..n -> 1..MaxId] : Injective(s)} : n \in 0..MaxLen }

LongHist == [i \in 1..LongLen |-> MaxId + i]

\* the message at stream position p (1-based) of this run
Yielded(p) == IF edited THEN Edit(SrcMsg(hist[p])) ELSE SrcMsg(hist[p])

\* --------------------------------------------------------------- the store
Visible == db \cup txn

\* Row with the key taken from an AUTOINCREMENT rowid, not from message.id
RowAuto(m) ==
    [id            |-> Cardinality(Visible) + 1,
     date          |-> IsoFormat(SaveDate(m.date)),
     sender_id     |-> m.from_user,
     text          |-> IF m.text # Null THEN m.text ELSE m.caption,
     media_type    |-> IF m.media = "none" THEN Null ELSE m.media,
     sticker_emoji |-> IF m.media = "sticker" THEN m.emoji ELSE Null]

\* _save_message: the row built from a Message
Row(m) ==
    [id            |-> m.id,
     date          |-> IsoFormat(SaveDate(m.date)),
     sender_id     |-> m.from_user,
     text          |-> IF m.text # Null THEN m.text ELSE m.caption,
     media_type    |-> IF m.media = "none" THEN Null ELSE m.media,
     sticker_emoji |-> IF m.media = "sticker" THEN m.emoji ELSE Null]

\* InsertOrIgnore as INSERT OR REPLACE
InsertOrReplace(d, t, r) == {x \in t : x.id # r.id} \cup {r}

\* INSERT OR IGNORE INTO messages (id INTEGER PRIMARY KEY): the open
\* transaction after the statement, given the committed rows d
InsertOrIgnore(d, t, r) ==
    IF \E x \in d \cup t : x.id = r.id THEN t ELSE t \cup {r}

\* fetch_messages: the two `continue` tests of the loop
Skipped(m) ==
    \/ start_date # None /\ FetchDate(m.date) < start_date
    \/ end_date # None /\ FetchDate(m.date) > end_date

\* BatchFull with > for >=
BatchFullOffByOne(bc) == bc > batch_size

\* fetch_messages: if batch_count >= batch_size
BatchFull(bc) == bc >= batch_size

\* DateFilter with date <= ? for the end bound
DateFilterClosedEnd(r) ==
    /\ start_date # None => ~IsoLess(r.date, IsoFormat(start_date))
    /\ end_date # None => ~IsoLess(IsoFormat(end_date + DayLen), r.date)

\* _get_date_filter_query: the conditions appended to a WHERE clause
DateFilter(r) ==
    /\ start_date # None => ~IsoLess(r.date, IsoFormat(start_date))
    /\ end_date # None => IsoLess(r.date, IsoFormat(end_date + DayLen))

\* ------------------------------------------------------------- aggregation
\* SQL: media_type NOT IN ('photo', 'video'); NULL NOT IN (...) is NULL, and
\* a WHERE clause keeps only the rows whose condition is true
NotPhotoVideo(r) ==
    r.media_type # Null /\ r.media_type \notin {"photo", "video"}

InVoice(r) == r.media_type \in {"voice", "video_note"}

MaxOf(S) == CHOOSE x \in S : \A y \in S : y <= x
MinOf(S) == CHOOSE x \in S : \A y \in S : x <= y

\* Stats with total_days = (end_date - start_date).days
StatsNoLastDay(rows, first) ==
    LET sel      == {r \in rows : DateFilter(r)}
        dated    == {r \in sel : NotPhotoVideo(r)}
        DayOfRow(r) == DateOf(FromIso(r.date))
        dates    == {DayOfRow(r) : r \in dated}
        DayCount(d) == Cardinality({r \in dated : DayOfRow(r) = d})
        best     == MaxOf({DayCount(d) : d \in dates})
        tied     == {d \in dates : DayCount(d) = best}
        top      == IF first \in tied THEN first ELSE MinOf(tied)
    IN  [total_messages |-> Cardinality(sel),
         active_day     |-> IF dates = {} THEN <<None, 0>> ELSE <<top, best>>,
         inactive_days  |-> IF dates = {} THEN 0
                            ELSE (MaxOf(dates) - MinOf(dates)) - Cardinality(dates),
         voice_count    |-> Cardinality({r \in sel : InVoice(r)})]

\* metrics 1, 4, 5, 6 over the rows `rows` (all rows, or one sender's);
\* first is the day of the row the unordered SELECT returns first among the
\* days that tie for the top count
Stats(rows, first) ==
    LET sel      == {r \in rows : DateFilter(r)}
        dated    == {r \in sel : NotPhotoVideo(r)}
        DayOfRow(r) == DateOf(FromIso(r.date))
        dates    == {DayOfRow(r) : r \in dated}
        DayCount(d) == Cardinality({r \in dated : DayOfRow(r) = d})
        best     == MaxOf({DayCount(d) : d \in dates})
        tied     == {d \in dates : DayCount(d) = best}
        top      == IF first \in tied THEN first ELSE MinOf(tied)
    IN  [total_messages |-> Cardinality(sel),
         active_day     |-> IF dates = {} THEN <<None, 0>> ELSE <<top, best>>,
         inactive_days  |-> IF dates = {} THEN 0
                            ELSE (MaxOf(dates) - MinOf(dates)) + 1 - Cardinality(dates),
         voice_count    |-> Cardinality({r \in sel : InVoice(r)})]

\* UserIds with the date filter appended to the query
UserIdsInRange(rows) == {r.sender_id : r \in {x \in rows : DateFilter(x)}} \ {Null}

\* UserIds without the test sender_id IS NOT NULL
UserIdsWithNull(rows) == {r.sender_id : r \in rows}

\* SELECT DISTINCT sender_id FROM messages WHERE sender_id IS NOT NULL
UserIds(rows) == {r.sender_id : r \in rows} \ {Null}

\* --------------------------------------------------------- calendar months
\* dt.strftime('%Y-%m') as <<year, month>>; day 0 lies in the last month of
\* year 0, so that the sample dates span a turn of the year
YearMonth(t) ==
    LET m == (DateOf(t) \div MonthDays) + (MonthsPerYear - 1)
    IN  <<m \div MonthsPerYear, (m % MonthsPerYear) + 1>>

\* datetime(year, mon, 1, tzinfo=timezone.utc).isoformat()
MonthStartIso(ym) ==
    IsoFormat(((ym[1] * MonthsPerYear + (ym[2] - 1)) - (MonthsPerYear - 1))
              * MonthDays * DayLen)

\* the month after <<year, mon>>: if mon == 12 ... else ...
NextMonth(ym) ==
    IF ym[2] = MonthsPerYear THEN <<ym[1] + 1, 1>> ELSE <<ym[1], ym[2] + 1>>

\* InMonth with date <= next_month_start
InMonthClosed(r, ym) ==
    /\ ~IsoLess(r.date, MonthStartIso(ym))
    /\ ~IsoLess(MonthStartIso(NextMonth(ym)), r.date)

\* WHERE date >= month_start AND date < next_month_start
InMonth(r, ym) ==
    /\ ~IsoLess(r.date, MonthStartIso(ym))
    /\ IsoLess(r.date, MonthStartIso(NextMonth(ym)))

\* ------------------------------------------------------------------ tokens
\* the English entries of stop_words
stop_words ==
    {"the", "a", "an", "and", "or", "but", "in", "on", "at", "to", "for",
     "of", "with", "by", "is", "are", "was", "were", "be", "been", "have",
     "has", "had", "will", "would", "could", "should", "may", "might", "can",
     "this", "that", "these", "those"}

W(w, n) == [w |-> w, len |-> n]

\* text.lower() cut into its maximal runs of word characters (\w), each with
\* its length, for the texts of the sample messages
Runs(text) ==
    CASE text = "hi"   -> <<W("hi", 2)>>
      [] text = "yo"   -> <<W("yo", 2)>>
      [] text = "pic"  -> <<W("pic", 3)>>
      [] text = "clip" -> <<W("clip", 4)>>
      [] text = "edit" -> <<W("edit", 4)>>
      [] text = "Hello, hello WORLD!" ->
            <<W("hello", 5), W("hello", 5), W("world", 5)>>
      [] text = "the yo a hi" ->
            <<W("the", 3), W("yo", 2), W("a", 1), W("hi", 2)>>
      [] text = "aa bb cc dd ee ff gg hh ii jj kk" ->
            <<W("aa", 2), W("bb", 2), W("cc", 2), W("dd", 2), W("ee", 2),
              W("ff", 2), W("gg", 2), W("hh", 2), W("ii", 2), W("jj", 2),
              W("kk", 2)>>

\* re.findall(r'\b\w{2,}\b', text.lower()) without the stop words
Tokens(text) ==
    LET kept == SelectSeq(Runs(text),
                          LAMBDA x : x.len >= 2 /\ x.w \notin stop_words)
    IN  [i \in DOMAIN kept |-> kept[i].w]

\* ------------------------------------------------------- rows of a SELECT
\* a SELECT without ORDER BY returns the rows in the order of the scan the
\* planner chose: the table (by rowid) or idx_date (by date, then rowid)
ScanOrders == {"rowid", "date"}

Before(a, b, ord) ==
    IF ord = "date" /\ a.date # b.date THEN IsoLess(a.date, b.date)
    ELSE a.id < b.id

RECURSIVE Scan(_, _)
Scan(rows, ord) ==
    IF rows = {} THEN <<>>
    ELSE LET f == CHOOSE a \in rows : \A b \in rows \ {a} : Before(a, b, ord)
         IN  <<f>> \o Scan(rows \ {f}, ord)

\* words.extend(...) over the texts of a scan
RECURSIVE Words(_)
Words(scan) ==
    IF scan = <<>> THEN <<>>
    ELSE Tokens(Head(scan).text) \o Words(Tail(scan))

\* ---------------------------------------------------- Counter, most_common
\* a dict with integer values, as the sequence of its <<key, value>> items in
\* insertion order: d[x] += k for every <<x, k>> of `pairs`, left to right
RECURSIVE Tally(_)
Tally(pairs) ==
    IF pairs = <<>> THEN <<>>
    ELSE LET c == Tally(SubSeq(pairs, 1, Len(pairs) - 1))
             p == pairs[Len(pairs)]
         IN  IF \E i \in DOMAIN c : c[i][1] = p[1]
             THEN [i \in DOMAIN c |->
                     IF c[i][1] = p[1] THEN <<p[1], c[i][2] + p[2]>> ELSE c[i]]
             ELSE Append(c, p)

\* Counter(items).items()
Counter(items) == Tally([i \in DOMAIN items |-> <<items[i], 1>>])

\* InsertDesc placing the new item ahead of the items of equal count
InsertDescAhead(s, e) ==
    LET k == Cardinality({i \in DOMAIN s : s[i][2] > e[2]})
    IN  SubSeq(s, 1, k) \o <<e>> \o SubSeq(s, k + 1, Len(s))

\* one step of a stable descending sort: e, which follows the items of s in
\* the input, goes behind every item of s whose count is at least its own
InsertDesc(s, e) ==
    LET k == Cardinality({i \in DOMAIN s : s[i][2] >= e[2]})
    IN  SubSeq(s, 1, k) \o <<e>> \o SubSeq(s, k + 1, Len(s))

\* sorted(items, key=lambda x: x[1], reverse=True)
RECURSIVE SortedDesc(_)
SortedDesc(c) ==
    IF c = <<>> THEN <<>>
    ELSE InsertDesc(SortedDesc(SubSeq(c, 1, Len(c) - 1)), c[Len(c)])

\* Counter(items).most_common(n)
most_common(items, n) ==
    LET s == SortedDesc(Counter(items))
    IN  SubSeq(s, 1, IF Len(s) < n THEN Len(s) ELSE n)

\* max(word_counts.items(), key=lambda x: x[1]): the first item of the
\* greatest value
MaxItem(c) ==
    c[MinOf({i \in DOMAIN c : \A j \in DOMAIN c : c[j][2] <= c[i][2]})]

\* ------------------------------------------------------- the full battery
\* TopGroup answering a row of count 0 when no row is selected
TopGroupZeroRow(rows, pick) ==
    LET ids   == {r.sender_id : r \in rows}
        N(u)  == Cardinality({r \in rows : r.sender_id = u})
        best  == MaxOf({N(u) : u \in ids})
        tied  == {u \in ids : N(u) = best}
    IN  IF rows = {} THEN <<Null, 0>>
        ELSE <<IF pick \in tied THEN pick ELSE CHOOSE u \in tied : TRUE, best>>

\* SELECT sender_id, ..., COUNT(*) ... GROUP BY sender_id ORDER BY COUNT(*)
\* DESC LIMIT 1, fetchone(): <<>> stands for None; among the senders that
\* tie for the top count SQL leaves the row open, pick names it
TopGroup(rows, pick) ==
    LET ids   == {r.sender_id : r \in rows}
        N(u)  == Cardinality({r \in rows : r.sender_id = u})
        best  == MaxOf({N(u) : u \in ids})
        tied  == {u \in ids : N(u) = best}
    IN  IF rows = {} THEN <<>>
        ELSE <<IF pick \in tied THEN pick ELSE CHOOSE u \in tied : TRUE, best>>

\* analyze_global_stats over the table `rows`; ord is the scan order of the
\* SELECTs, first and pick decide the ties SQL leaves open.  The sticker set
\* name and link of metric 3 are left out.
GlobalStats(rows, ord, first, pick) ==
    LET core     == Stats(rows, first)
        sel      == {r \in rows : DateFilter(r)}
        texts    == Scan({r \in sel : r.text # Null}, ord)
        stickers == Scan({r \in sel : r.sticker_emoji # Null}, ord)
        emojis   == [i \in DOMAIN stickers |-> stickers[i].sticker_emoji]
        sent     == {r \in sel : r.sender_id # Null}
        wordy    == Scan({r \in sent : r.text # Null}, ord)
        word_counts ==
            Tally([i \in DOMAIN wordy |->
                     <<wordy[i].sender_id, Len(Tokens(wordy[i].text))>>])
        dated    == Scan(sel, ord)
        month_activity ==
            Tally([i \in DOMAIN dated |->
                     <<YearMonth(FromIso(dated[i].date)), 1>>])
        months   == {month_activity[i][1] : i \in DOMAIN month_activity}
        all_month_words(ym) ==
            Words(Scan({r \in sel : InMonth(r, ym) /\ r.text # Null}, ord))
        MonthTop(ym) == TopGroup({r \in sent : InMonth(r, ym)}, pick)
    IN  [total_messages      |-> core.total_messages,
         top_words           |-> most_common(Words(texts), TopWords),
         top_stickers        |-> most_common(emojis, TopStickers),
         active_day          |-> core.active_day,
         inactive_days       |-> core.inactive_days,
         voice_count         |-> core.voice_count,
         top_sender          |-> TopGroup(sent, pick),
         top_voice_sender    |-> TopGroup({r \in sent : InVoice(r)}, pick),
         top_media_sender    |->
             TopGroup({r \in sent : r.media_type \in {"photo", "video"}}, pick),
         top_wordy_sender    |->
             IF word_counts = <<>> THEN <<Null, 0>> ELSE MaxItem(word_counts),
         top_sticker_sender  |->
             TopGroup({r \in sent : r.sticker_emoji # Null}, pick),
         monthly_ranking     |-> SortedDesc(month_activity),
         monthly_top_words   |->
             [ym \in {m \in months : all_month_words(m) # <<>>} |->
                most_common(all_month_words(ym), 1)[1][1]],
         monthly_top_senders |->
             [ym \in months |->
                IF MonthTop(ym) = <<>> THEN Null ELSE MonthTop(ym)[1]]]

\* analyze_user_stats(user_id) over the table `rows`
UserStats(rows, user_id, ord, first) ==
    LET mine     == {r \in rows : r.sender_id = user_id}
        core     == Stats(mine, first)
        sel      == {r \in mine : DateFilter(r)}
        texts    == Scan({r \in sel : r.text # Null}, ord)
        stickers == Scan({r \in sel : r.sticker_emoji # Null}, ord)
        emojis   == [i \in DOMAIN stickers |-> stickers[i].sticker_emoji]
        dated    == Scan(sel, ord)
        user_month_activity ==
            Tally([i \in DOMAIN dated |->
                     <<YearMonth(FromIso(dated[i].date)), 1>>])
    IN  [total_messages  |-> core.total_messages,
         top_words       |-> most_common(Words(texts), TopWords),
         top_sticker     |-> IF emojis = <<>> THEN <<Null, 0>>
                             ELSE most_common(emojis, 1)[1],
         active_day      |-> core.active_day,
         inactive_days   |-> core.inactive_days,
         voice_count     |-> core.voice_count,
         monthly_ranking |-> SortedDesc(user_month_activity)]

\* -------------------------------------------------------------------- Init
NoArg == [kind |-> "none", day |-> 0]
BadArg == [kind |-> "bad", day |-> 0]
ArgVals == {NoArg, BadArg} \cup {[kind |-> "date", day |-> d] : d \in 0..MaxDay}

Inputs ==
    ((ArgVals \X ArgVals) \X ShortHists)
    \cup {<<<<NoArg, NoArg>>, LongHist>>}

Init ==
    /\ \E i \in Inputs : args = i[1] /\ hist = i[2]
    /\ pc = "boot"
    /\ start_date = None /\ end_date = None
    /\ calls = {}
    /\ db_created = FALSE /\ db_conn = "none"
    /\ db = {} /\ txn = {}
    /\ edited = FALSE
    /\ pos = 0 /\ count = 0 /\ batch_count = 0 /\ sleep_for = 0
    /\ outcome = "none"
    /\ global_stats = {} /\ user_stats = <<>>
    /\ run = 1 /\ prev_db = {} /\ prev_outcome = "none"

\* ----------------------------------------------------------------- the run
\* run_with_args / run_interactive: await self.client.start()
Start ==
    /\ pc = "boot"
    /\ calls' = calls \cup {"start"}
    /\ pc' = "started"
    /\ UNCHANGED <<args, start_date, end_date, db_created, db_conn, db,
                   txn, hist, edited, pos, count, batch_count, sleep_for,
                   outcome, global_stats, user_stats, run, prev_db, prev_outcome>>

\* run_interactive only: get_sorted_chats (the dialog listing; its failure
\* is caught and yields empty groups), the printout and the chat id prompt
ListChats ==
    /\ pc = "started"
    /\ pc' = "listed"
    /\ UNCHANGED <<args, calls, start_date, end_date, db_created, db_conn, db,
                   txn, hist, edited, pos, count, batch_count, sleep_for,
                   outcome, global_stats, user_stats, run, prev_db, prev_outcome>>

\* run_with_args (right after start) and run_interactive (after the
\* listing): the dates are parsed and the range validated; what is left in
\* self.start_date / self.end_date and whether the run goes on
ParsedStart == IF args[1].kind = "date" THEN parse_date(args[1]) ELSE None
ParsedEnd ==
    IF args[1].kind # "bad" /\ args[2].kind = "date" THEN parse_date(args[2])
    ELSE None
\* DatesRejected without the end < start test
DatesRejectedNoRange == args[1].kind = "bad" \/ args[2].kind = "bad"

DatesRejected ==
    \/ args[1].kind = "bad"
    \/ args[2].kind = "bad"
    \/ args[2].kind = "date" /\ ParsedStart # None /\ ParsedEnd < ParsedStart

ParseDates ==
    /\ pc \in {"started", "listed"}
    /\ start_date' = ParsedStart
    /\ end_date' = ParsedEnd
    /\ pc' = IF DatesRejected THEN "rejected" ELSE "access"
    /\ UNCHANGED <<args, calls, db_created, db_conn, db, txn, hist,
                   edited, pos, count, batch_count, sleep_for, outcome,
                   global_stats, user_stats, run, prev_db, prev_outcome>>

\* the chat access check succeeds: init_db runs, fetch_messages starts and
\* waits for its own get_chat
AccessOk ==
    /\ pc = "access"
    /\ calls' = calls \cup {"get_chat"}
    /\ db_created' = TRUE
    /\ db_conn' = "open"
    /\ pc' = "fetch_check"
    /\ UNCHANGED <<args, start_date, end_date, db, txn, hist, edited,
                   pos, count, batch_count, sleep_for, outcome, global_stats,
                   user_stats, run, prev_db, prev_outcome>>

\* AccessDenied with init_db called ahead of the access check
AccessDeniedAfterInit ==
    /\ pc = "access"
    /\ calls' = calls \cup {"get_chat"}
    /\ db_created' = TRUE
    /\ db_conn' = "open"
    /\ pc' = "denied"
    /\ UNCHANGED <<args, start_date, end_date, db, txn, hist, edited, pos,
                   count, batch_count, sleep_for, outcome, global_stats,
                   user_stats, run, prev_db, prev_outcome>>

\* the chat access check raises (ChatForbidden or any Exception): return
AccessDenied ==
    /\ pc = "access"
    /\ calls' = calls \cup {"get_chat"}
    /\ pc' = "denied"
    /\ UNCHANGED <<args, start_date, end_date, db_created, db_conn, db,
                   txn, hist, edited, pos, count, batch_count, sleep_for,
                   outcome, global_stats, user_stats, run, prev_db, prev_outcome>>

\* fetch_messages: get_chat succeeds; the loop asks for the first message
FetchChatOk ==
    /\ pc = "fetch_check"
    /\ calls' = calls \cup {"get_chat_history"}
    /\ count' = 0 /\ batch_count' = 0
    /\ pc' = "fetching"
    /\ UNCHANGED <<args, start_date, end_date, db_created, db_conn, db,
                   txn, hist, edited, pos, sleep_for, outcome, global_stats,
                   user_stats, run, prev_db, prev_outcome>>

\* fetch_messages: get_chat raises; the error is printed and fetch returns
FetchChatFail ==
    /\ pc = "fetch_check"
    /\ outcome' = "nochat"
    /\ pc' = "analyze"
    /\ UNCHANGED <<args, start_date, end_date, calls, db_created,
                   db_conn, db, txn, hist, edited, pos, count, batch_count,
                   sleep_for, global_stats, user_stats, run, prev_db,
                   prev_outcome>>

\* FetchNext with `break` for `continue`: the scan stops at the first
\* out-of-range message
FetchNextBreak ==
    /\ pc = "fetching" /\ pos < Len(hist)
    /\ pos' = pos + 1
    /\ LET m  == Yielded(pos + 1)
           t1 == InsertOrIgnore(db, txn, Row(m))
       IN  IF Skipped(m)
           THEN /\ db' = db \cup txn
                /\ txn' = {}
                /\ outcome' = "normal"
                /\ pc' = "analyze"
                /\ UNCHANGED <<count, batch_count, sleep_for>>
           ELSE /\ count' = count + 1
                /\ outcome' = outcome
                /\ IF BatchFull(batch_count + 1)
                   THEN /\ db' = db \cup t1
                        /\ txn' = {}
                        /\ batch_count' = 0
                        /\ sleep_for' = PacingTenths
                        /\ pc' = "pacing"
                   ELSE /\ txn' = t1
                        /\ batch_count' = batch_count + 1
                        /\ pc' = "fetching"
                        /\ UNCHANGED <<db, sleep_for>>
    /\ UNCHANGED <<args, start_date, end_date, calls, db_created,
                   db_conn, hist, edited, global_stats, user_stats,
                   run, prev_db, prev_outcome>>

\* one iteration of the loop: the stream yields the next message
FetchNext ==
    /\ pc = "fetching" /\ pos < Len(hist)
    /\ pos' = pos + 1
    /\ LET m  == Yielded(pos + 1)
           t1 == InsertOrIgnore(db, txn, Row(m))
       IN  IF Skipped(m)
           THEN /\ pc' = "fetching"
                /\ UNCHANGED <<db, txn, count, batch_count, sleep_for>>
           ELSE /\ count' = count + 1
                /\ IF BatchFull(batch_count + 1)
                   THEN /\ db' = db \cup t1
                        /\ txn' = {}
                        /\ batch_count' = 0
                        /\ sleep_for' = PacingTenths
                        /\ pc' = "pacing"
                   ELSE /\ txn' = t1
                        /\ batch_count' = batch_count + 1
                        /\ pc' = "fetching"
                        /\ UNCHANGED <<db, sleep_for>>
    /\ UNCHANGED <<args, start_date, end_date, calls, db_created,
                   db_conn, hist, edited, outcome, global_stats, user_stats,
                   run, prev_db, prev_outcome>>

\* asyncio.sleep(0.1) after a batch commit returns
PacingDone ==
    /\ pc = "pacing"
    /\ sleep_for' = 0
    /\ pc' = "fetching"
    /\ UNCHANGED <<args, start_date, end_date, calls, db_created,
                   db_conn, db, txn, hist, edited, pos, count, batch_count,
                   outcome, global_stats, user_stats, run, prev_db,
                   prev_outcome>>

\* the stream ends: the final commit, and fetch_messages returns
FetchEnd ==
    /\ pc = "fetching" /\ pos = Len(hist)
    /\ db' = db \cup txn
    /\ txn' = {}
    /\ outcome' = "normal"
    /\ pc' = "analyze"
    /\ UNCHANGED <<args, start_date, end_date, calls, db_created,
                   db_conn, hist, edited, pos, count, batch_count, sleep_for,
                   global_stats, user_stats, run, prev_db, prev_outcome>>

\* the stream raises FloodWait and the exception carries the attribute x
\* the handler reads: it sleeps e.x seconds
FetchFloodWait ==
    /\ pc = "fetching"
    /\ \E x \in 1..MaxWait : sleep_for' = 10 * x
    /\ outcome' = "flood"
    /\ pc' = "flood_wait"
    /\ UNCHANGED <<args, start_date, end_date, calls, db_created,
                   db_conn, db, txn, hist, edited, pos, count, batch_count,
                   global_stats, user_stats, run, prev_db, prev_outcome>>

\* the stream raises FloodWait and the exception has no attribute x (the
\* Pyrogram 2 name is value): the handler's AttributeError leaves the run
FetchFloodCrash ==
    /\ pc = "fetching"
    /\ outcome' = "crashed"
    /\ pc' = "crashed"
    /\ UNCHANGED <<args, start_date, end_date, calls, db_created,
                   db_conn, db, txn, hist, edited, pos, count, batch_count,
                   sleep_for, global_stats, user_stats, run, prev_db,
                   prev_outcome>>

\* the sleep of the FloodWait handler returns, and so does fetch_messages
FloodDone ==
    /\ pc = "flood_wait"
    /\ sleep_for' = 0
    /\ pc' = "analyze"
    /\ UNCHANGED <<args, start_date, end_date, calls, db_created,
                   db_conn, db, txn, hist, edited, pos, count, batch_count,
                   outcome, global_stats, user_stats, run, prev_db,
                   prev_outcome>>

\* FetchError with a handler that discards the stored rows
FetchErrorRollback ==
    /\ pc = "fetching"
    /\ outcome' = "error"
    /\ db' = {} /\ txn' = {}
    /\ pc' = "analyze"
    /\ UNCHANGED <<args, start_date, end_date, calls, db_created,
                   db_conn, hist, edited, pos, count, batch_count,
                   sleep_for, global_stats, user_stats, run, prev_db,
                   prev_outcome>>

\* the stream raises any other Exception: printed, fetch_messages returns
FetchError ==
    /\ pc = "fetching"
    /\ outcome' = "error"
    /\ pc' = "analyze"
    /\ UNCHANGED <<args, start_date, end_date, calls, db_created,
                   db_conn, db, txn, hist, edited, pos, count, batch_count,
                   sleep_for, global_stats, user_stats, run, prev_db,
                   prev_outcome>>

\* the task is cancelled at one of fetch_messages' awaits: CancelledError
\* is no Exception and leaves the run
Cancel ==
    /\ pc \in {"fetch_check", "fetching", "pacing", "flood_wait"}
    /\ outcome' = "cancelled"
    /\ pc' = "cancelled"
    /\ UNCHANGED <<args, start_date, end_date, calls, db_created,
                   db_conn, db, txn, hist, edited, pos, count, batch_count,
                   sleep_for, global_stats, user_stats, run, prev_db,
                   prev_outcome>>

\* Analyze committing the open transaction before it reads
AnalyzeCommits ==
    /\ pc = "analyze"
    /\ \E first \in {DateOf(FromIso(r.date)) : r \in Visible} \cup {None} :
         /\ global_stats' = {Stats(Visible, first)}
         /\ user_stats' = [u \in UserIds(Visible) |->
                             Stats({r \in Visible : r.sender_id = u}, first)]
    /\ db' = db \cup txn /\ txn' = {}
    /\ pc' = "done"
    /\ UNCHANGED <<args, start_date, end_date, calls, db_created, db_conn,
                   hist, edited, pos, count, batch_count, sleep_for, outcome,
                   run, prev_db, prev_outcome>>

\* analyze_global_stats, analyze_user_stats for every sender, export_results
Analyze ==
    /\ pc = "analyze"
    /\ \E first \in {DateOf(FromIso(r.date)) : r \in Visible} \cup {None} :
         /\ global_stats' = {Stats(Visible, first)}
         /\ user_stats' = [u \in UserIds(Visible) |->
                             Stats({r \in Visible : r.sender_id = u}, first)]
    /\ pc' = "done"
    /\ UNCHANGED <<args, start_date, end_date, calls, db_created,
                   db_conn, db, txn, hist, edited, pos, count, batch_count,
                   sleep_for, outcome, run, prev_db, prev_outcome>>

\* the process ends (the connection is dropped without a commit, so the
\* open transaction is rolled back) and the program is started again on the
\* same chat, dates and database file
Restart ==
    /\ pc \in {"done", "rejected", "denied", "cancelled", "crashed"}
    /\ run < MaxRuns
    /\ run' = run + 1
    /\ prev_db' = db
    /\ prev_outcome' = IF outcome = "normal" THEN "normal" ELSE "partial"
    /\ edited' \in BOOLEAN
    /\ txn' = {}
    /\ db_conn' = "none"
    /\ calls' = {}
    /\ start_date' = None /\ end_date' = None
    /\ pos' = 0 /\ count' = 0 /\ batch_count' = 0 /\ sleep_for' = 0
    /\ outcome' = "none"
    /\ global_stats' = {} /\ user_stats' = <<>>
    /\ pc' = "boot"
    /\ UNCHANGED <<args, db_created, db, hist>>

Next ==
    \/ Start \/ ListChats \/ ParseDates \/ AccessOk \/ AccessDenied
    \/ FetchChatOk \/ FetchChatFail \/ FetchNext \/ PacingDone \/ FetchEnd
    \/ FetchFloodWait \/ FetchFloodCrash \/ FloodDone \/ FetchError
    \/ Cancel \/ Analyze \/ Restart

Spec == Init /\ [][Next]_vars

\* ------------------------------------------- the aggregation on any store
\* the row _save_message wrote for the sample message of id i
StoreRow(i) == Row([id |-> i] @@ Contents[i])

Stores ==
    {{StoreRow(i) : i \in S} :
        S \in {T \in SUBSET (1..Len(Contents)) : Cardinality(T) <= MaxStore}}

RangeArgs ==
    {a \in (ArgVals \ {BadArg}) \X (ArgVals \ {BadArg}) :
        (a[1].kind = "date" /\ a[2].kind = "date") => a[1].day <= a[2].day}

\* a run at the point where fetch_messages has returned: the database holds
\* the rows of earlier runs (of any range), the chat of this run was empty
InitAgg ==
    /\ db \in Stores
    /\ args \in RangeArgs
    /\ start_date = (IF args[1].kind = "date" THEN parse_date(args[1]) ELSE None)
    /\ end_date = (IF args[2].kind = "date" THEN parse_date(args[2]) ELSE None)
    /\ pc = "analyze"
    /\ calls = {"start", "get_chat", "get_chat_history"}
    /\ db_created = TRUE /\ db_conn = "open"
    /\ txn = {} /\ hist = <<>>
    /\ edited = FALSE
    /\ pos = 0 /\ count = 0 /\ batch_count = 0 /\ sleep_for = 0
    /\ outcome = "normal"
    /\ global_stats = {} /\ user_stats = <<>>
    /\ run = 1 /\ prev_db = db /\ prev_outcome = "none"

\* analyze_global_stats, then analyze_user_stats for every sender id, with
\* every metric (Analyze keeps the counting metrics 1, 4, 5 and 6)
Aggregate ==
    /\ pc = "analyze"
    /\ \E ord \in ScanOrders,
          first \in {DateOf(FromIso(r.date)) : r \in Visible} \cup {None},
          pick \in UserIds(Visible) \cup {Null} :
         /\ global_stats' = {GlobalStats(Visible, ord, first, pick)}
         /\ user_stats' = [u \in UserIds(Visible) |->
                             UserStats(Visible, u, ord, first)]
    /\ pc' = "done"
    /\ UNCHANGED <<args, start_date, end_date, calls, db_created, db_conn, db,
                   txn, hist, edited, pos, count, batch_count, sleep_for,
                   outcome, run, prev_db, prev_outcome>>

NextAgg == Aggregate

SpecAgg == InitAgg /\ [][NextAgg]_vars

\* ------------------------------------------------------------------ claims
\* the requested range at day granularity: start <= t < end + 1 day
InRangeDay(t) ==
    /\ start_date # None => start_date <= t
    /\ end_date # None => t < end_date + DayLen

Positions == 1..Len(hist)
StoredIds == {r.id : r \in Visible}

\* C1: on an initially empty store, after the stream was consumed without
\* error, every yielded timezone-aware message whose UTC instant t satisfies
\* start <= t < end + 1 day has exactly one committed row, and that row is
\* counted in total_messages.
C1_InRangeStoredOnce ==
    (pc = "done" /\ outcome = "normal" /\ run = 1) =>
        /\ \A p \in Positions :
             LET m == SrcMsg(hist[p])
             IN  (m.date.aware /\ InRangeDay(AsUTC(m.date))) =>
                    /\ Cardinality({r \in db : r.id = m.id}) = 1
                    /\ \A r \in db : r.id = m.id => DateFilter(r)
        /\ \A g \in global_stats :
             g.total_messages >=
               Cardinality({p \in Positions :
                              /\ SrcMsg(hist[p]).date.aware
                              /\ InRangeDay(AsUTC(SrcMsg(hist[p]).date))})

\* C2: when the stream raised FloodWait, fetch_messages does not return
\* before the stream is consumed: once the run is past the fetch, every
\* message of the history that passes the loop's date test is stored.
C2_FloodResumes ==
    (outcome = "flood" /\ pc \in {"analyze", "done"}) =>
        \A p \in Positions : ~Skipped(Yielded(p)) => hist[p] \in StoredIds

\* C3: the step that aborts the ingestion (an error of the stream, or a
\* cancellation) and every later step of that run leave the committed rows
\* exactly as they were.
C3_AbortKeepsCommitted ==
    [][outcome' \in {"error", "cancelled"} => db' = db]_vars

C3_Witness ==
    /\ outcome = "error" /\ pc = "done"
    /\ count > batch_size
    /\ Cardinality(db) = batch_size
    /\ txn # {}

\* C4: when the access check of run_with_args / run_interactive raised, the
\* run has ended with no database connection, no history request, no
\* aggregation, and the database as the run found it (not created in a
\* first run).
C4_DeniedNoWrite ==
    pc = "denied" =>
        /\ db_conn = "none"
        /\ db = prev_db /\ txn = {}
        /\ (run = 1 => ~db_created)
        /\ "get_chat_history" \notin calls
        /\ count = 0 /\ outcome = "none"
        /\ global_stats = {} /\ user_stats = <<>>

C4_Witness == pc = "denied" /\ "get_chat" \in calls

RangeInverted ==
    start_date # None /\ end_date # None /\ end_date < start_date

\* C5 as claimed: a run whose end date precedes its start date is rejected
\* before any client call, with the store untouched.
C5_NoClientCall ==
    RangeInverted =>
        /\ pc = "rejected"
        /\ calls = {}
        /\ db_conn = "none" /\ db = prev_db /\ txn = {}

\* C5 amended: a run whose end date precedes its start date is rejected after
\* the session start but before any access check or history request, with no
\* database connection opened and the store untouched (not created in a
\* first run).
C5_RejectedBeforeChat ==
    RangeInverted =>
        /\ pc = "rejected"
        /\ calls \subseteq {"start"}
        /\ db_conn = "none" /\ db = prev_db /\ txn = {}
        /\ (run = 1 => ~db_created)
        /\ global_stats = {}

C5_Witness == RangeInverted /\ pc = "rejected" /\ "start" \in calls

\* C6: when the previous run consumed the whole history and this run reads
\* the identical history, this run adds nothing: at every point of it the
\* store holds exactly the rows (and so the count) the previous run left.
C6_Idempotent ==
    (run > 1 /\ prev_outcome = "normal" /\ ~edited) => Visible = prev_db

C6_Witness ==
    /\ run > 1 /\ prev_outcome = "normal" /\ ~edited
    /\ pc = "done" /\ outcome = "normal"
    /\ count > 1 /\ Cardinality(db) > 1

\* C7: no step changes or removes a committed row; within a run no step
\* changes or removes a stored row; and the store holds at most one row per
\* id, so an insert under an existing id leaves the first row in place.
C7_AppendOnly ==
    [][/\ db \subseteq db'
       /\ run' = run => Visible \subseteq Visible'
       /\ Cardinality({r.id : r \in db' \cup txn'}) = Cardinality(db' \cup txn')]_vars

\* an edited message has just been offered to a store that holds its
\* earlier version
C7_Witness ==
    /\ edited /\ pc = "fetching" /\ pos > 0
    /\ ~Skipped(Yielded(pos))
    /\ \E r \in db : r.id = hist[pos] /\ r # Row(Yielded(pos))
    /\ count = pos

\* C8: at every point of the scan each message already yielded that passes
\* the loop's date test is stored, whatever was yielded before it; after a
\* normal end the stored ids are those of the earlier runs plus those of
\* the history's messages that pass the test, and in a first run the rows
\* are exactly the rows of those messages -- a function of the set of
\* messages, not of their order.
C8_OrderFree ==
    /\ {hist[p] : p \in {q \in 1..pos : ~Skipped(Yielded(q))}} \subseteq StoredIds
    /\ outcome = "normal" =>
         /\ StoredIds = {r.id : r \in prev_db}
                          \cup {hist[p] : p \in {q \in Positions : ~Skipped(Yielded(q))}}
         /\ run = 1 =>
              Visible = {Row(Yielded(p)) : p \in {q \in Positions : ~Skipped(Yielded(q))}}

\* a message in range was yielded right after one out of range, and a
\* message out of range after that
C8_Witness ==
    /\ outcome = "normal" /\ pc = "done" /\ Len(hist) = 3
    /\ Skipped(Yielded(1)) /\ ~Skipped(Yielded(2)) /\ Skipped(Yielded(3))
    /\ start_date # None /\ end_date # None

\* C9: in the loop a commit happens exactly in the iteration that accepts
\* the batch_size-th message since the previous commit, and is followed by
\* one pacing sleep after which the loop goes on; no other iteration
\* changes the committed rows; the uncommitted rows never exceed
\* batch_size, and none is left after the final commit of a normal end.
C9_BatchCadence ==
    /\ [](/\ batch_count <= batch_size
          /\ Cardinality(txn) <= batch_count
          /\ pc = "pacing" =>
               /\ txn = {} /\ batch_count = 0
               /\ sleep_for = PacingTenths
               /\ count > 0 /\ count % batch_size = 0
          /\ outcome = "normal" => txn = {})
    /\ [][/\ (pc = "fetching" /\ pc' \in {"fetching", "pacing"}) =>
               /\ pc' = "pacing" <=>
                    (count' = count + 1 /\ batch_count + 1 = batch_size)
               /\ pc' = "fetching" => db' = db
          /\ pc = "pacing" =>
               /\ pc' \in {"fetching", "cancelled"}
               /\ db' = db /\ txn' = txn /\ pos' = pos]_vars

C9_Witness ==
    pc = "pacing" /\ count = 2 * batch_size /\ Cardinality(db) = 2 * batch_size

\* C10: with no date range and the store holding three no-media messages
\* of sender A dated day 0, day 0 and day 2, the global and A's statistics
\* report active_day = (day 0, 2), inactive_days = 1, total_messages = 3.
C10_Scenario ==
    (/\ pc = "done" /\ start_date = None /\ end_date = None
     /\ Visible = {Row(SrcMsg(1)), Row(SrcMsg(5)), Row(SrcMsg(3))}) =>
        /\ \A g \in global_stats :
             /\ g.active_day = <<0, 2>>
             /\ g.inactive_days = 1
             /\ g.total_messages = 3
        /\ user_stats["A"].active_day = <<0, 2>>
        /\ user_stats["A"].inactive_days = 1
        /\ user_stats["A"].total_messages = 3

\* ---------------------------------------------------------------------
\* the sum of the counts of a sequence of <<key, count>> items
RECURSIVE SumCounts(_)
SumCounts(c) == IF c = <<>> THEN 0 ELSE c[1][2] + SumCounts(Tail(c))

\* the rows whose instant lies in [start_date, end_date + 1 day)
InRangeRows(rows) == {r \in rows : InRangeDay(FromIso(r.date))}

\* C11: whatever the store holds, the date-filtered queries of both
\* analyses select exactly the rows stamped at or after start_date 00:00 UTC
\* and strictly before (end_date + 1 day) 00:00 UTC: a row at start 00:00 or
\* at end 00:00 is counted, a row at (end + 1 day) 00:00 or before start is
\* not.
C11_RangeBounds ==
    pc = "done" =>
      \A g \in global_stats :
        LET sel == InRangeRows(Visible)
        IN  /\ g.total_messages = Cardinality(sel)
            /\ g.voice_count = Cardinality({r \in sel : InVoice(r)})
            /\ SumCounts(g.monthly_ranking) = Cardinality(sel)
            /\ SumCounts(g.top_stickers)
                 = Cardinality({r \in sel : r.sticker_emoji # Null})
            /\ (g.top_sender # <<>>) = (\E r \in sel : r.sender_id # Null)
            /\ g.active_day[2] <= Cardinality(sel)
            /\ \A u \in DOMAIN user_stats :
                 LET mine == {r \in sel : r.sender_id = u}
                 IN  /\ user_stats[u].total_messages = Cardinality(mine)
                     /\ user_stats[u].voice_count
                          = Cardinality({r \in mine : InVoice(r)})
                     /\ SumCounts(user_stats[u].monthly_ranking)
                          = Cardinality(mine)

C11_Witness ==
    /\ pc = "done" /\ start_date # None /\ end_date # None
    /\ \E a, b, c, d \in Visible :
         /\ a.date = IsoFormat(start_date)
         /\ b.date = IsoFormat(end_date + (DayLen - 1))
         /\ c.date = IsoFormat(end_date + DayLen)
         /\ IsoLess(d.date, IsoFormat(start_date))
         /\ Visible = {a, b, c, d}
    /\ \E r \in Visible : r.date = IsoFormat(end_date)
    /\ \A g \in global_stats : g.total_messages = 2

\* the calendar dates metric 4 counts: the in-range rows whose media type is
\* set and is neither photo nor video
Metric4Dates(rows) ==
    {DateOf(FromIso(r.date)) :
        r \in {x \in InRangeRows(rows) :
                 x.media_type \in {"sticker", "voice", "video_note"}}}

\* the days from the first to the last date of D that are not in D
GapDays(D) == {d \in MinOf(D)..MaxOf(D) : d \notin D}

InactiveOk(st, D) ==
    /\ st.inactive_days >= 0
    /\ (D = {}) => st.inactive_days = 0 /\ st.active_day = <<None, 0>>
    /\ (D # {}) =>
         /\ st.inactive_days = (MaxOf(D) - MinOf(D)) + 1 - Cardinality(D)
         /\ st.inactive_days = Cardinality(GapDays(D))
         /\ st.active_day[1] \in D

\* C12: for any store and range, inactive_days is (max_date - min_date).days
\* + 1 minus the number of distinct dates of metric 4, i.e. the number of
\* days between the first and the last such date that have none; it is
\* never negative, and 0 when metric 4 has no date.
C12_InactiveDays ==
    pc = "done" =>
      /\ \A g \in global_stats : InactiveOk(g, Metric4Dates(Visible))
      /\ \A u \in DOMAIN user_stats :
           InactiveOk(user_stats[u],
                      Metric4Dates({r \in Visible : r.sender_id = u}))

C12_Witness ==
    /\ pc = "done"
    /\ Cardinality(Metric4Dates(Visible)) = 2
    /\ \A g \in global_stats : g.inactive_days = 1
    /\ \E u \in DOMAIN user_stats :
         user_stats[u].inactive_days = 0 /\ user_stats[u].active_day[1] # None

\* the number of occurrences and the first position of x in the list L
Occurrences(L, x) == Cardinality({i \in DOMAIN L : L[i] = x})
FirstAt(L, x) == MinOf({i \in DOMAIN L : L[i] = x})

\* x ranks ahead of y among the items fed as L
Ahead(L, x, y) ==
    \/ Occurrences(L, x) > Occurrences(L, y)
    \/ Occurrences(L, x) = Occurrences(L, y) /\ FirstAt(L, x) < FirstAt(L, y)

\* R is the top-n selection of the items fed as L
Ranked(L, n, R) ==
    LET items == {L[i] : i \in DOMAIN L}
        keys  == {R[i][1] : i \in DOMAIN R}
    IN  /\ Len(R) = IF Cardinality(items) < n THEN Cardinality(items) ELSE n
        /\ \A i \in DOMAIN R :
             R[i][1] \in items /\ R[i][2] = Occurrences(L, R[i][1])
        /\ \A i, j \in DOMAIN R : i < j =>
             /\ R[i][2] >= R[j][2]
             /\ Ahead(L, R[i][1], R[j][1])
        /\ \A y \in items \ keys : \A i \in DOMAIN R : Ahead(L, R[i][1], y)

\* the lists the top-N selections of analyze_global_stats are fed, for the
\* scan order ord
FedWords(rows, ord) ==
    Words(Scan({r \in InRangeRows(rows) : r.text # Null}, ord))
FedEmojis(rows, ord) ==
    LET sc == Scan({r \in InRangeRows(rows) : r.sticker_emoji # Null}, ord)
    IN  [i \in DOMAIN sc |-> sc[i].sticker_emoji]
FedMonthWords(rows, ord, ym) ==
    Words(Scan({r \in InRangeRows(rows) :
                  r.text # Null /\ YearMonth(FromIso(r.date)) = ym}, ord))

C14_EmptySentinels ==
    (pc = "done" /\ InRangeRows(Visible) = {}) =>
      /\ global_stats # {}
      /\ \A g \in global_stats :
           /\ g.total_messages = 0 /\ g.voice_count = 0 /\ g.inactive_days = 0
           /\ g.top_words = <<>> /\ g.top_stickers = <<>>
           /\ g.monthly_ranking = <<>>
           /\ DOMAIN g.monthly_top_words = {}
           /\ DOMAIN g.monthly_top_senders = {}
           /\ g.active_day = <<None, 0>>
           /\ g.top_wordy_sender = <<Null, 0>>
           /\ g.top_sender = <<>> /\ g.top_voice_sender = <<>>
           /\ g.top_media_sender = <<>> /\ g.top_sticker_sender = <<>>
      /\ DOMAIN user_stats = UserIds(Visible)
      /\ \A u \in DOMAIN user_stats :
           /\ user_stats[u].total_messages = 0
           /\ user_stats[u].voice_count = 0
           /\ user_stats[u].inactive_days = 0
           /\ user_stats[u].top_words = <<>>
           /\ user_stats[u].top_sticker = <<Null, 0>>
           /\ user_stats[u].monthly_ranking = <<>>
           /\ user_stats[u].active_day = <<None, 0>>

C14_Witness ==
    /\ pc = "done" /\ InRangeRows(Visible) = {}
    /\ Cardinality(UserIds(Visible)) = 2
    /\ \E r \in Visible : r.text # Null
    /\ \E r \in Visible : r.sticker_emoji # Null
    /\ global_stats # {}

FetchReturned == outcome \in {"normal", "flood", "error", "nochat"}

\* C15: a run ingests, then aggregates: no aggregation result exists before
\* fetch_messages has returned, and from the start of the aggregation to
\* the end of the run neither the committed rows nor the open transaction
\* change (analyze_* and export_results only read).
C15_IngestThenAggregate ==
    /\ [](/\ (pc = "analyze" => FetchReturned)
          /\ (global_stats # {} => (pc = "done" /\ FetchReturned)))
    /\ [][/\ ((global_stats' # global_stats /\ global_stats' # {}) =>
                (pc = "analyze" /\ FetchReturned))
          /\ ((pc \in {"analyze", "done"} /\ run' = run) =>
                (db' = db /\ txn' = txn))]_vars

C15_Witness ==
    /\ pc = "done" /\ global_stats # {}
    /\ outcome = "flood" /\ txn # {} /\ db = {}
    /\ \A g \in global_stats : g.total_messages = Cardinality(txn)

\* C16: a run that passed the date validation and the access check reaches
\* the aggregation whatever the outcome of the ingestion: once the stream
\* has ended, signalled a rate limit or failed, the run is waiting out the
\* rate limit, aggregating, or done; it never ends in an unhandled failure.
C16_FetchAlwaysReturns ==
    (db_conn = "open" /\ outcome \notin {"none", "cancelled"}) =>
        pc \in {"flood_wait", "analyze", "done"}

\* C17: every row written holds, normalized to UTC, the instant the loop of
\* fetch_messages tested against the range, also for a message whose date
\* carries no timezone.
C17_StoredIsTestedInstant ==
    {<<Yielded(p).id, IsoFormat(FetchDate(Yielded(p).date))>> :
        p \in {q \in 1..pos : ~Skipped(Yielded(q))}}
      \subseteq {<<r.id, r.date>> : r \in Visible}

\* the months of monthly_ranking
RankedMonths(g) == {g.monthly_ranking[i][1] : i \in DOMAIN g.monthly_ranking}

\* the value of month ym is a most frequent filtered token of the month
MonthTokenOk(g, ym) ==
    \E ord \in ScanOrders :
      LET L == FedMonthWords(Visible, ord, ym)
      IN  /\ g.monthly_top_words[ym] \in {L[i] : i \in DOMAIN L}
          /\ g.monthly_top_words[ym] \notin stop_words
          /\ \A i \in DOMAIN L :
               Occurrences(L, L[i]) <= Occurrences(L, g.monthly_top_words[ym])

\* C18: monthly_top_words has exactly one entry for every month that has
\* an in-range message, i.e. its keys are the months of monthly_ranking,
\* and every value is the month's most frequent filtered token.
C18_EntryPerMonth ==
    pc = "done" =>
      \A g \in global_stats :
        /\ RankedMonths(g)
             = {YearMonth(FromIso(r.date)) : r \in InRangeRows(Visible)}
        /\ DOMAIN g.monthly_top_words = RankedMonths(g)
        /\ \A ym \in DOMAIN g.monthly_top_words : MonthTokenOk(g, ym)

\* C18 as amended: monthly_top_words has exactly one entry for every month
\* in which an in-range message yields a filtered token, and none for a
\* month of monthly_ranking whose messages yield no token; every value is
\* the month's most frequent filtered token.
C18_EntryPerTokenMonth ==
    pc = "done" =>
      \A g \in global_stats :
        /\ RankedMonths(g)
             = {YearMonth(FromIso(r.date)) : r \in InRangeRows(Visible)}
        /\ DOMAIN g.monthly_top_words
             = {ym \in RankedMonths(g) : FedMonthWords(Visible, "rowid", ym) # <<>>}
        /\ \A ym \in DOMAIN g.monthly_top_words : MonthTokenOk(g, ym)

C18_Witness ==
    /\ pc = "done"
    /\ \E g \in global_stats :
         /\ Cardinality(RankedMonths(g)) = 2
         /\ Cardinality(DOMAIN g.monthly_top_words) = 1
         /\ \E ym \in DOMAIN g.monthly_top_words :
              Len(FedMonthWords(Visible, "rowid", ym)) > 2

\* the sum of f over its domain
RECURSIVE SumOf(_)
SumOf(f) ==
    IF DOMAIN f = {} THEN 0
    ELSE LET u == CHOOSE v \in DOMAIN f : TRUE
         IN  f[u] + SumOf([v \in DOMAIN f \ {u} |-> f[v]])

\* C19: a sender's total_messages is the number of in-range rows of that
\* sender id; the senders' totals plus the in-range rows without sender id
\* add up to the global total_messages, and the senders' voice_count plus
\* the in-range voice / video-note rows without sender id add up to the
\* global voice_count.
C19_SenderTotalsAddUp ==
    pc = "done" =>
      \A g \in global_stats :
        LET sel    == InRangeRows(Visible)
            nobody == {r \in sel : r.sender_id = Null}
        IN  /\ \A u \in DOMAIN user_stats :
                 user_stats[u].total_messages
                   = Cardinality({r \in sel : r.sender_id = u})
            /\ SumOf([u \in DOMAIN user_stats |-> user_stats[u].total_messages])
                 + Cardinality(nobody) = g.total_messages
            /\ SumOf([u \in DOMAIN user_stats |-> user_stats[u].voice_count])
                 + Cardinality({r \in nobody : InVoice(r)}) = g.voice_count

C19_Witness ==
    /\ pc = "done"
    /\ Cardinality(DOMAIN user_stats) = 2
    /\ \A u \in DOMAIN user_stats : user_stats[u].total_messages > 0
    /\ \E r \in InRangeRows(Visible) : r.sender_id = Null /\ InVoice(r)
    /\ \E u \in DOMAIN user_stats : user_stats[u].voice_count > 0
    /\ \E r \in Visible : r \notin InRangeRows(Visible)

\* C20: at the end of a run every message the aggregation counted is
\* committed, also when the ingestion ended in the rate-limit or the
\* generic error handler with fewer than batch_size rows accepted since the
\* last batch commit.
C20_CountedIsCommitted ==
    pc = "done" =>
      /\ InRangeRows(Visible) \subseteq db
      /\ \A g \in global_stats :
           g.total_messages = Cardinality(InRangeRows(db))

\* the senders that have a row in the store
StoredSenders == {u \in {"A", "B"} : \E r \in Visible : r.sender_id = u}

\* C21: the per-sender results of a run have one entry for every sender id
\* of the store whatever the date range: a sender whose rows all lie outside
\* the range has an entry with total_messages = 0, active_day = (None, 0)
\* and inactive_days = 0, while the global result counts in-range rows only.
C21_EntryPerStoredSender ==
    pc = "done" =>
      /\ DOMAIN user_stats = StoredSenders
      /\ \A u \in StoredSenders :
           (\A r \in Visible : r.sender_id = u => ~InRangeDay(FromIso(r.date)))
             => /\ user_stats[u].total_messages = 0
                /\ user_stats[u].active_day = <<None, 0>>
                /\ user_stats[u].inactive_days = 0
      /\ \A g \in global_stats :
           g.total_messages
             = Cardinality({r \in Visible : InRangeDay(FromIso(r.date))})

C21_Witness ==
    /\ pc = "done"
    /\ StoredSenders = {"A", "B"}
    /\ \E u \in DOMAIN user_stats :
         /\ user_stats[u].total_messages = 0
         /\ \E r \in Visible : r.sender_id = u /\ r.media_type = "sticker"
    /\ \E u \in DOMAIN user_stats : user_stats[u].total_messages > 0
    /\ \A g \in global_stats :
         g.total_messages > 0 /\ g.total_messages < Cardinality(Visible)

====
